---- MODULE Spec2Model ----
(***************************************************************************)
(* A model of streamlit_app.py (VinylSearcher): the configuration loader   *)
(* get_site_configs_from_sheet, the scraper scrape_single_site, the        *)
(* reference matcher recommend_vinyls and the "compare prices" handler.    *)
(*                                                                         *)
(* Python strings are sequences of characters; a character is a one-letter *)
(* TLA+ string, and the no-break space U+00A0 is the atom Nbsp.            *)
(***************************************************************************)
EXTENDS Integers, Sequences, FiniteSets, TLC

VARIABLES
    \* ---- get_site_configs_from_sheet ----
    sheet,          \* what the worksheet gives: [status, rows]
    row_index,      \* index of the next data row to process (1-based here)
    site_configs,   \* the list being built and returned
    row_log,        \* per processed row: "accepted" | "skipped" | "warning" | "error"
    load_pc,        \* "idle" | "start" | "rows" | "returned"
    \* ---- scrape_single_site ----
    site_config,    \* the argument
    pc,             \* "idle" | "start" | "loop" | "after_loop" | "returned" | "raised"
    page_num,       \* loop variable: the page number of the next iteration
    stopped,        \* why the loop was left: "none" | "config" | "empty_page" | "range_end"
    sel,            \* the five selector lists of lines 148-152
    site_vinyl_records, \* the records collected so far (the returned DataFrame's rows)
    url,            \* the local url: <<>> until an iteration assigns it, then <<text>>
    page_log,       \* one entry per loop iteration that issued a request
    \* ---- extraction of one product (lines 197-250) ----
    ex_in,          \* [product, sel] the product node and selector lists
    ex_out,         \* the record appended for it
    ex_pc,          \* "idle" | "ready" | "done"
    \* ---- recommend_vinyls ----
    discount_df, top_df,     \* the two arguments (sequences of rows)
    discount_norm, top_norm, \* the two pairs of _norm columns
    recommended_df,          \* the returned rows
    rec_pc,                  \* "idle" | "ready" | "done"
    \* ---- compare prices handler ----
    albums_to_search,        \* the selected rows of last_recommendations
    shop_deals,              \* per compared shop, what scrape_single_site returned
    all_comparison_results,  \* the rows collected before the final frame is built
    found_album_in_shop,     \* per album and shop, the rows the match condition keeps
    found_flags,             \* per album, found_in_any_other_shop
    final_comparison_df,     \* the frame of line 493 after dropna (line 498)
    cmp_pc                   \* "idle" | "ready" | "done" | "KeyError"

load_vars == <<sheet, row_index, site_configs, row_log, load_pc>>
scrape_vars == <<site_config, pc, page_num, stopped, sel, site_vinyl_records, url, page_log>>
extract_vars == <<ex_in, ex_out, ex_pc>>
recommend_vars == <<discount_df, top_df, discount_norm, top_norm, recommended_df, rec_pc>>
compare_vars ==
    <<albums_to_search, shop_deals, all_comparison_results, found_album_in_shop,
      found_flags, final_comparison_df, cmp_pc>>
vars == <<load_vars, scrape_vars, extract_vars, recommend_vars, compare_vars>>

NoValue == "NoValue"

(***************************************************************************)
(* Strings                                                                 *)
(***************************************************************************)
Nbsp == "nbsp"

\* str.isspace for the characters used here: U+0020 and U+00A0 are whitespace.
IsSpace(c) == c \in {" ", Nbsp}

\* str.lower, one character.
LowerChar(c) ==
    CASE c = "A" -> "a"
      [] c = "B" -> "b"
      [] c = "W" -> "w"
      [] c = "N" -> "n"
      [] OTHER -> c

\* str.lower
Lower(s) == [i \in 1..Len(s) |-> LowerChar(s[i])]

\* str.strip(): leading and trailing whitespace removed.
Strip(s) ==
    LET nonspace == {i \in 1..Len(s) : ~IsSpace(s[i])}
    IN  IF nonspace = {} THEN <<>>
        ELSE LET lo == CHOOSE i \in nonspace : \A j \in nonspace : i <= j
                 hi == CHOOSE i \in nonspace : \A j \in nonspace : j <= i
             IN  SubSeq(s, lo, hi)

\* str.replace(old, new) for a one-character old and a string new.
ReplaceChar(s, old, new) ==
    LET RECURSIVE rep(_)
        rep(i) == IF i > Len(s) THEN <<>>
                  ELSE (IF s[i] = old THEN new ELSE <<s[i]>>) \o rep(i + 1)
    IN  rep(1)

\* str.startswith
StartsWith(s, p) == Len(p) <= Len(s) /\ SubSeq(s, 1, Len(p)) = p

\* The positions at which sub occurs in s.
Occurrences(s, sub) ==
    {i \in 1..(Len(s) - Len(sub) + 1) : SubSeq(s, i, i + Len(sub) - 1) = sub}

\* "sub in s" / Series.str.contains(sub, regex=False): the empty sub is in every s.
Contains(s, sub) == sub = <<>> \/ Occurrences(s, sub) # {}

\* str.split(sep) for a one-character sep: always at least one part.
Split(s, sep) ==
    LET RECURSIVE parts(_, _)
        parts(i, cur) ==
            IF i > Len(s) THEN <<cur>>
            ELSE IF s[i] = sep THEN <<cur>> \o parts(i + 1, <<>>)
            ELSE parts(i + 1, Append(cur, s[i]))
    IN  parts(1, <<>>)

\* The split at the last occurrence of sep (str.rsplit(sep, 1)).
SplitOnceLast(s, sep) ==
    LET at == CHOOSE i \in Occurrences(s, sep) : \A j \in Occurrences(s, sep) : j <= i
    IN  <<SubSeq(s, 1, at - 1), SubSeq(s, at + Len(sep), Len(s))>>

\* str.split(sep, 1) for a sep that occurs in s: the text before the first
\* occurrence and the text after it.
SplitOnce(s, sep) ==
    LET at == CHOOSE i \in Occurrences(s, sep) : \A j \in Occurrences(s, sep) : i <= j
    IN  <<SubSeq(s, 1, at - 1), SubSeq(s, at + Len(sep), Len(s))>>

\* ord(): the code points Python compares strings by.
Ord(c) ==
    CASE c = " " -> 32
      [] c = "," -> 44
      [] c = "-" -> 45
      [] c = "." -> 46
      [] c = "1" -> 49
      [] c = "2" -> 50
      [] c = "A" -> 65
      [] c = "B" -> 66
      [] c = "N" -> 78
      [] c = "W" -> 87
      [] c = "a" -> 97
      [] c = "b" -> 98
      [] c = "n" -> 110
      [] c = "w" -> 119
      [] c = Nbsp -> 160
      [] OTHER -> 8372

\* s < t for Python strings: lexicographic by code point.
StrLess(s, t) ==
    \E k \in 1..(Len(t)) :
        /\ k - 1 <= Len(s)
        /\ SubSeq(s, 1, k - 1) = SubSeq(t, 1, k - 1)
        /\ (Len(s) < k \/ Ord(s[k]) < Ord(t[k]))

\* str(n) for an integer, as an f-string formats it.
StrOfInt(n) ==
    LET digit(d) == CASE d = 0 -> "0" [] d = 1 -> "1" [] d = 2 -> "2" [] d = 3 -> "3"
                      [] d = 4 -> "4" [] d = 5 -> "5" [] d = 6 -> "6" [] d = 7 -> "7"
                      [] d = 8 -> "8" [] d = 9 -> "9"
        RECURSIVE digits(_)
        digits(m) == IF m < 10 THEN <<digit(m)>>
                     ELSE Append(digits(m \div 10), digit(m % 10))
    IN  IF n < 0 THEN <<"-">> \o digits(-n) ELSE digits(n)

(***************************************************************************)
(* get_site_configs_from_sheet                                             *)
(***************************************************************************)
\* int(text): surrounding whitespace ignored, an optional sign, then decimal
\* digits; anything else raises ValueError (ok = FALSE).
ParseInt(text) ==
    LET t == Strip(text)
        signed == t # <<>> /\ t[1] \in {"-", "+"}
        body == IF signed THEN SubSeq(t, 2, Len(t)) ELSE t
        val(c) == CASE c = "0" -> 0 [] c = "1" -> 1 [] c = "2" -> 2 [] c = "3" -> 3
                    [] c = "4" -> 4 [] c = "5" -> 5 [] c = "6" -> 6 [] c = "7" -> 7
                    [] c = "8" -> 8 [] c = "9" -> 9 [] OTHER -> -1
        RECURSIVE num(_)
        num(k) == IF k = 0 THEN 0 ELSE 10 * num(k - 1) + val(body[k])
        isnum == body # <<>> /\ \A k \in 1..Len(body) : val(body[k]) >= 0
    IN  IF ~isnum THEN [ok |-> FALSE, value |-> 0]
        ELSE [ok |-> TRUE,
              value |-> IF signed /\ t[1] = "-" THEN 0 - num(Len(body)) ELSE num(Len(body))]

\* The normalized header names a record is keyed by (lines 62-70, 89-94).
HeaderKeys ==
    {"name", "baseurl", "paginationparam", "startpage", "endpage", "productcontainer",
     "titleelement", "priceelement", "linkelement", "artistelement"}

\* "not any(row_data)": every cell of the row is the empty string (line 85).
RowIsBlank(record) == \A h \in HeaderKeys : record[h] = <<>>

\* The config dict of lines 97-110, for a record whose page cells parse.
BuildConfig(record) ==
    [name |-> record.name,
     base_url |-> record.baseurl,
     pagination_param |-> record.paginationparam,
     start_page |-> ParseInt(record.startpage).value,
     end_page |-> ParseInt(record.endpage).value,
     selectors |-> [product_container |-> record.productcontainer,
                    title_element |-> record.titleelement,
                    price_element |-> record.priceelement,
                    link_element |-> record.linkelement,
                    ArtistElement |-> record.artistelement]]

\* The check of lines 112-113: truthiness of the six required values.
RequiredFilled(config) ==
    /\ \A key \in {"name", "base_url"} : config[key] # <<>>
    /\ \A key \in {"product_container", "title_element", "price_element", "link_element"} :
          config.selectors[key] # <<>>

\* One data row's fate (lines 85-120): "skipped" (blank row), "error" (a page cell
\* int() rejects), "warning" (a required value is empty) or "accepted".
RowOutcome(record) ==
    IF RowIsBlank(record) THEN "skipped"
    ELSE IF ~ParseInt(record.startpage).ok \/ ~ParseInt(record.endpage).ok THEN "error"
    ELSE IF RequiredFilled(BuildConfig(record)) THEN "accepted"
    ELSE "warning"

(***************************************************************************)
(* scrape_single_site                                                      *)
(*                                                                         *)
(* A parsed page (soup) is a function from the selectors that match in it  *)
(* to the product nodes soup.select returns; a product node is a function  *)
(* from the selectors that match in it to the first matching element; an   *)
(* element is [strings, href]: its text fragments in document order and    *)
(* its href attribute, <<>> when it has none and <<text>> when it has one. *)
(***************************************************************************)
\* dict.get(key, default)
Get(d, key, default) == IF key \in DOMAIN d THEN d[key] ELSE default

\* [s.strip() for s in cell.split(',') if s.strip()]  (lines 148-152)
SelectorList(cell) ==
    LET parts == Split(cell, ",")
        kept == SelectSeq(parts, LAMBDA part : Strip(part) # <<>>)
    IN  [i \in 1..Len(kept) |-> Strip(kept[i])]

\* The five lists of lines 148-152, read from the keys the scraper looks up.
ScraperSelectors(selectors) ==
    [product_container |-> SelectorList(Get(selectors, "ProductContainer", <<>>)),
     title_element |-> SelectorList(Get(selectors, "TitleElement", <<>>)),
     price_element |-> SelectorList(Get(selectors, "PriceElement", <<>>)),
     link_element |-> SelectorList(Get(selectors, "LinkElement", <<>>)),
     artist_element |-> SelectorList(Get(selectors, "ArtistElement", <<>>))]

\* soup.select(selector) / product.select_one(selector)
Select(soup, selector) == IF selector \in DOMAIN soup THEN soup[selector] ELSE <<>>
Selects(product, selector) == selector \in DOMAIN product
SelectOne(product, selector) == product[selector]

\* tag.get_text(strip=True): every fragment stripped, empty ones dropped, joined.
GetTextStrip(tag) ==
    LET RECURSIVE join(_)
        join(i) == IF i > Len(tag.strings) THEN <<>>
                   ELSE Strip(tag.strings[i]) \o join(i + 1)
    IN  join(1)

\* tag.get_text(strip=True).replace('\xa0', ' ').strip()  (lines 207, 214, 226)
CleanText(tag) == Strip(ReplaceChar(GetTextStrip(tag), Nbsp, <<" ">>))

\* "for selector in selectors: ... break": the index of the first selector of
\* the list that is among the hits; 0 when none is.
FirstIndex(hits) == IF hits = {} THEN 0 ELSE CHOOSE i \in hits : \A j \in hits : i <= j

\* The products of a page (lines 183-188): all matches of the first container
\* selector that matches anything.
FindProducts(soup, product_container_selectors) ==
    LET i == FirstIndex({k \in DOMAIN product_container_selectors :
                            Select(soup, product_container_selectors[k]) # <<>>})
    IN  IF i = 0 THEN <<>> ELSE Select(soup, product_container_selectors[i])

\* requests.compat.urljoin(base_url, href) for a non-empty href. The letter "H"
\* stands for a scheme and host ("https://shop"); an href that has one is taken
\* as it is, a root-relative href replaces the base's path, and any other href
\* replaces the last segment of the base's path.
UrlJoin(base_url, href) ==
    LET slashes == {i \in 1..Len(base_url) : base_url[i] = "/"}
        last == CHOOSE i \in slashes : \A j \in slashes : j <= i
        hosts == {i \in 1..Len(base_url) : base_url[i] = "H"}
        host == CHOOSE i \in hosts : \A j \in hosts : i <= j
    IN  IF href[1] = "H" THEN href
        ELSE IF hosts = {} THEN (IF slashes = {} THEN href
                                 ELSE IF href[1] = "/" THEN href
                                 ELSE SubSeq(base_url, 1, last) \o href)
        ELSE IF href[1] = "/" THEN SubSeq(base_url, 1, host) \o href
        ELSE IF slashes = {} THEN base_url \o <<"/">> \o href
        ELSE SubSeq(base_url, 1, last) \o href

\* "Невідомо", the literal lines 199-200 start album_name and price_new with,
\* shortened to two letters (a capital and a small one).
Unknown == <<"N", "n">>

\* The artist text of lines 203-208: the text of the first artist selector that
\* selects an element ("" when the list is empty or nothing is selected).
ArtistBySelector(product, artist_element_selectors) ==
    LET i == FirstIndex({k \in DOMAIN artist_element_selectors :
                            Selects(product, artist_element_selectors[k])})
    IN  IF i = 0 THEN <<>> ELSE CleanText(SelectOne(product, artist_element_selectors[i]))

\* Lines 210-229: artist and album from the artist text and the title element.
ArtistAlbum(product, artist_element_selectors, title_element_selectors) ==
    LET artist_name == ArtistBySelector(product, artist_element_selectors)
        i == FirstIndex({k \in DOMAIN title_element_selectors :
                            Selects(product, title_element_selectors[k])})
        full_title == CleanText(SelectOne(product, title_element_selectors[i]))
        sep == <<" ", "-", " ">>
    IN  IF i = 0 THEN [artist |-> artist_name, album |-> Unknown]
        ELSE IF artist_name = <<>> THEN
            IF Contains(full_title, sep)
            THEN [artist |-> Strip(SplitOnce(full_title, sep)[1]),
                  album |-> Strip(SplitOnce(full_title, sep)[2])]
            ELSE [artist |-> artist_name, album |-> full_title]
        ELSE IF StartsWith(full_title, artist_name \o sep)
            THEN [artist |-> artist_name,
                  album |-> Strip(SubSeq(full_title, Len(artist_name \o sep) + 1,
                                         Len(full_title)))]
            ELSE [artist |-> artist_name, album |-> full_title]

\* Lines 232-236: the raw text of the first price selector that selects an element.
PriceText(product, price_element_selectors) ==
    LET i == FirstIndex({k \in DOMAIN price_element_selectors :
                            Selects(product, price_element_selectors[k])})
    IN  IF i = 0 THEN Unknown ELSE GetTextStrip(SelectOne(product, price_element_selectors[i]))

\* Lines 238-242: the first link selector whose element has a non-empty href.
ProductLink(product, link_element_selectors, base_url) ==
    LET hasHref(s) == /\ Selects(product, s)
                      /\ SelectOne(product, s).href # <<>>
                      /\ SelectOne(product, s).href[1] # <<>>
        i == FirstIndex({k \in DOMAIN link_element_selectors :
                            hasHref(link_element_selectors[k])})
    IN  IF i = 0 THEN <<>>
        ELSE UrlJoin(base_url, SelectOne(product, link_element_selectors[i]).href[1])

\* The record appended for one product (lines 197-250). Columns: store is
\* 'Магазин', artist 'Гурт/Співак', album 'Назва Альбому', price 'Ціна (Знижка)',
\* link 'Посилання'.
ExtractRecord(product, s, site_name, base_url) ==
    LET aa == ArtistAlbum(product, s.artist_element, s.title_element)
    IN  [store |-> site_name,
         artist |-> aa.artist,
         album |-> aa.album,
         price |-> PriceText(product, s.price_element),
         link |-> ProductLink(product, s.link_element, base_url)]

\* The records of one page's products, in document order (lines 197-250).
ExtractAll(products, s, site_name, base_url) ==
    [i \in 1..Len(products) |-> ExtractRecord(products[i], s, site_name, base_url)]

\* Lines 163-170: the URL of a page, or why there is none. "unbound": the else
\* branch was taken for a page number <= 1 and no earlier iteration assigned url,
\* so line 172 raises UnboundLocalError; with an earlier url, that one is reused.
\* The local url is <<>> while unassigned and <<text>> afterwards.
ResolveUrl(config, n, prev_url) ==
    IF n = 1 THEN [kind |-> "url", url |-> <<config.base_url>>]
    ELSE IF config.pagination_param # <<>>
        THEN [kind |-> "url",
              url |-> <<config.base_url \o <<"?">> \o config.pagination_param
                        \o <<"=">> \o StrOfInt(n)>>]
    ELSE IF n > 1 THEN [kind |-> "break", url |-> prev_url]
    ELSE IF prev_url = <<>> THEN [kind |-> "unbound", url |-> prev_url]
    ELSE [kind |-> "url", url |-> prev_url]

(***************************************************************************)
(* Inputs of the scraper: pages and site configurations                    *)
(***************************************************************************)
MaxPage == 3          \* the largest end_page of a configuration
StartPages == (0 - 1)..2

El(strings, href) == [strings |-> strings, href |-> href]

\* Two product nodes. ProdA has no artist element and the title "A - B";
\* ProdB has the artist element "A", the title "A - W" and a link without href.
ProdA ==
    (<<"t">> :> El(<<<<"A", " ", "-", " ", "B">>>>, <<>>)
     @@ <<"c">> :> El(<<<<"1", "2">>>>, <<>>)
     @@ <<"l">> :> El(<<>>, <<<<"/", "a">>>>))
ProdB ==
    (<<"r">> :> El(<<<<"A">>>>, <<>>)
     @@ <<"t">> :> El(<<<<"A">>, <<" ", "-", Nbsp, "W">>>>, <<>>)
     @@ <<"l">> :> El(<<>>, <<>>))

\* The pages a request can return: nothing a container selector matches, or
\* products under the selector "p", under "q", or under both.
Soups ==
    {[x \in {} |-> <<>>],
     (<<"p">> :> <<ProdA>>),
     (<<"q">> :> <<ProdB>>),
     (<<"p">> :> <<ProdA, ProdB>> @@ <<"q">> :> <<ProdB>>)}

BaseUrl == <<"H", "/", "c">>

\* Configurations a caller builds with the keys the scraper reads.
DirectConfigs ==
    {[name |-> <<"s">>, base_url |-> BaseUrl, pagination_param |-> param,
      start_page |-> first, end_page |-> last,
      selectors |-> [ProductContainer |-> container, TitleElement |-> <<"t">>,
                     PriceElement |-> <<"c">>, LinkElement |-> <<"l">>,
                     ArtistElement |-> artist]] :
        param \in {<<>>, <<"p", "g">>}, first \in StartPages, last \in 0..MaxPage,
        container \in {<<"p">>, <<"q", ",", " ", "p">>}, artist \in {<<>>, <<"r">>}}

\* Sheet rows for the scraper's configurations: every cell filled, the page
\* cells written as numbers.
ScrapeRows ==
    {[name |-> <<"s">>, baseurl |-> BaseUrl, paginationparam |-> param,
      startpage |-> StrOfInt(first), endpage |-> StrOfInt(last),
      productcontainer |-> container, titleelement |-> <<"t">>,
      priceelement |-> <<"c">>, linkelement |-> <<"l">>, artistelement |-> <<"r">>] :
        param \in {<<>>, <<"p", "g">>}, first \in StartPages, last \in 0..MaxPage,
        container \in {<<"p">>, <<"q", ",", " ", "p">>}}

\* The configurations get_site_configs_from_sheet returns for those rows.
LoadedConfigs == {BuildConfig(r) : r \in {x \in ScrapeRows : RowOutcome(x) = "accepted"}}

SiteConfigs == DirectConfigs \cup LoadedConfigs

(***************************************************************************)
(* scrape_single_site as a state machine: one step per loop iteration      *)
(***************************************************************************)
\* The five selector lists before lines 148-152 have run.
NoSelectors ==
    [product_container |-> <<>>, title_element |-> <<>>, price_element |-> <<>>,
     link_element |-> <<>>, artist_element |-> <<>>]

LoadIdle ==
    /\ sheet = NoValue /\ row_index = 0 /\ site_configs = <<>>
    /\ row_log = <<>> /\ load_pc = "idle"
ScrapeIdle ==
    /\ site_config = NoValue /\ pc = "idle" /\ page_num = 0 /\ stopped = "none"
    /\ sel = NoSelectors /\ site_vinyl_records = <<>> /\ url = <<>> /\ page_log = <<>>
ExtractIdle == ex_in = NoValue /\ ex_out = NoValue /\ ex_pc = "idle"
RecommendIdle ==
    /\ discount_df = <<>> /\ top_df = <<>> /\ discount_norm = <<>> /\ top_norm = <<>>
    /\ recommended_df = <<>> /\ rec_pc = "idle"
CompareIdle ==
    /\ albums_to_search = <<>> /\ shop_deals = <<>> /\ all_comparison_results = <<>>
    /\ found_album_in_shop = <<>> /\ found_flags = <<>>
    /\ final_comparison_df = <<>> /\ cmp_pc = "idle"

Init ==
    /\ site_config \in SiteConfigs
    /\ pc = "start" /\ page_num = 0 /\ stopped = "none" /\ sel = NoSelectors
    /\ site_vinyl_records = <<>> /\ url = <<>> /\ page_log = <<>>
    /\ LoadIdle /\ ExtractIdle /\ RecommendIdle /\ CompareIdle

others_scrape == <<load_vars, extract_vars, recommend_vars, compare_vars>>

\* Lines 140-160: the locals, before the loop.
ScrapeStart ==
    /\ pc = "start"
    /\ sel' = ScraperSelectors(site_config.selectors)
    /\ page_num' = site_config.start_page
    /\ pc' = "loop"
    /\ UNCHANGED <<site_config, stopped, site_vinyl_records, url, page_log, others_scrape>>

InLoop == pc = "loop" /\ page_num <= site_config.end_page

LogEntry(outcome, records) ==
    [page |-> page_num, url |-> ResolveUrl(site_config, page_num, url).url[1],
     outcome |-> outcome, records |-> records]

\* Line 170: no pagination parameter and page_num > 1: break.
IterNoPagination ==
    /\ InLoop
    /\ ResolveUrl(site_config, page_num, url).kind = "break"
    /\ pc' = "after_loop" /\ stopped' = "config"
    /\ UNCHANGED <<site_config, page_num, sel, site_vinyl_records, url, page_log, others_scrape>>

\* Line 172 with url never assigned: UnboundLocalError leaves the function.
IterUrlUnbound ==
    /\ InLoop
    /\ ResolveUrl(site_config, page_num, url).kind = "unbound"
    /\ pc' = "raised"
    /\ UNCHANGED <<site_config, page_num, stopped, sel, site_vinyl_records, url, page_log, others_scrape>>

\* Lines 174-179 with break in place of continue.
IterFetchErrorBreaks ==
    /\ InLoop
    /\ ResolveUrl(site_config, page_num, url).kind = "url"
    /\ url' = ResolveUrl(site_config, page_num, url).url
    /\ page_log' = Append(page_log, LogEntry("error", <<>>))
    /\ pc' = "after_loop" /\ stopped' = "range_end"
    /\ UNCHANGED <<site_config, page_num, sel, site_vinyl_records, others_scrape>>

\* Lines 174-179: the request fails (RequestException): continue.
IterFetchError ==
    /\ InLoop
    /\ ResolveUrl(site_config, page_num, url).kind = "url"
    /\ url' = ResolveUrl(site_config, page_num, url).url
    /\ page_log' = Append(page_log, LogEntry("error", <<>>))
    /\ page_num' = page_num + 1
    /\ UNCHANGED <<site_config, pc, stopped, sel, site_vinyl_records, others_scrape>>

\* Line 192 with >= in place of >: the break on the first page of the range too.
BreaksOnEmptyPageFirst(n, start_page) == n >= start_page

\* Line 192 with an off-by-one: the break only from the third page of the range on.
BreaksOnEmptyPageLate(n, start_page) == n > start_page + 1

\* Line 192: an empty page ends the scan unless it is the first page of the range.
BreaksOnEmptyPage(n, start_page) == n > start_page

\* Lines 181-195: the page is fetched and no container selector matches: break
\* after the first page of the range, continue on it.
IterNoProducts ==
    /\ InLoop
    /\ ResolveUrl(site_config, page_num, url).kind = "url"
    /\ \E soup \in Soups :
        /\ FindProducts(soup, sel.product_container) = <<>>
        /\ url' = ResolveUrl(site_config, page_num, url).url
        /\ page_log' = Append(page_log, LogEntry("empty", <<>>))
        /\ IF BreaksOnEmptyPage(page_num, site_config.start_page)
           THEN pc' = "after_loop" /\ stopped' = "empty_page" /\ page_num' = page_num
           ELSE pc' = pc /\ stopped' = stopped /\ page_num' = page_num + 1
    /\ UNCHANGED <<site_config, sel, site_vinyl_records, others_scrape>>

\* Lines 181-250: the page is fetched and has products: one record each.
IterProducts ==
    /\ InLoop
    /\ ResolveUrl(site_config, page_num, url).kind = "url"
    /\ \E soup \in Soups :
        LET products == FindProducts(soup, sel.product_container)
            records == ExtractAll(products, sel, site_config.name, site_config.base_url)
        IN  /\ products # <<>>
            /\ url' = ResolveUrl(site_config, page_num, url).url
            /\ page_log' = Append(page_log, LogEntry("products", records))
            /\ site_vinyl_records' = site_vinyl_records \o records
            /\ page_num' = page_num + 1
    /\ UNCHANGED <<site_config, pc, stopped, sel, others_scrape>>

\* range(start_page, end_page + 1) is exhausted.
LoopEnd ==
    /\ pc = "loop" /\ page_num > site_config.end_page
    /\ pc' = "after_loop" /\ stopped' = "range_end"
    /\ UNCHANGED <<site_config, page_num, sel, site_vinyl_records, url, page_log, others_scrape>>

\* Lines 252-253: return pd.DataFrame(site_vinyl_records).
ScrapeReturn ==
    /\ pc = "after_loop"
    /\ pc' = "returned"
    /\ UNCHANGED <<site_config, page_num, stopped, sel, site_vinyl_records, url, page_log, others_scrape>>

Next ==
    \/ ScrapeStart
    \/ IterNoPagination
    \/ IterUrlUnbound
    \/ IterFetchError
    \/ IterNoProducts
    \/ IterProducts
    \/ LoopEnd
    \/ ScrapeReturn

Spec == Init /\ [][Next]_vars

\* The function runs to its end: straight-line code and a for loop over a
\* range, a request that ends by a response or by its timeout (line 175).
FairSpec == Spec /\ WF_vars(Next)

(***************************************************************************)
(* Properties of the pagination loop                                       *)
(***************************************************************************)
\* The records of the first k logged pages, in page order.
RecordsOfPages(k) ==
    LET RECURSIVE cat(_)
        cat(i) == IF i = 0 THEN <<>> ELSE cat(i - 1) \o page_log[i].records
    IN  cat(k)

ScanOver == pc \in {"after_loop", "returned"}

\* C1: a page k > start_page that is fetched and has no product container is the
\* last page requested: the scan is stopped by it (empty_page), no page after k is
\* requested, and the records collected and returned are those of the pages
\* requested before k, in page order.
C1_EmptyLaterPageStopsScan ==
    \A i \in DOMAIN page_log :
        (page_log[i].outcome = "empty" /\ page_log[i].page > site_config.start_page)
        => /\ i = Len(page_log)
           /\ \A j \in DOMAIN page_log : page_log[j].page <= page_log[i].page
           /\ ScanOver /\ stopped = "empty_page"
           /\ site_vinyl_records = RecordsOfPages(i - 1)

\* Pages 1 and 2 (or 2 and 3) had products, the next page had none, and at least
\* one more page of the range was left unrequested when the function returned.
C1_Witness ==
    /\ pc = "returned" /\ stopped = "empty_page"
    /\ Len(page_log) = 3
    /\ page_log[1].outcome = "products" /\ page_log[2].outcome = "products"
    /\ page_log[3].outcome = "empty"
    /\ page_log[3].page < site_config.end_page
    /\ Len(site_vinyl_records) >= 2

\* C3: for a configuration the loader returned, each of the four required selector
\* lists the scraper iterates is non-empty and is the loader's cell split on commas
\* and trimmed; only the artist list may be empty.
C3_LoadedSelectorsReachScraper ==
    (site_config \in LoadedConfigs /\ pc # "start")
    => /\ sel.product_container = SelectorList(site_config.selectors.product_container)
       /\ sel.title_element = SelectorList(site_config.selectors.title_element)
       /\ sel.price_element = SelectorList(site_config.selectors.price_element)
       /\ sel.link_element = SelectorList(site_config.selectors.link_element)
       /\ sel.product_container # <<>> /\ sel.title_element # <<>>
       /\ sel.price_element # <<>> /\ sel.link_element # <<>>

\* Whether the page after n has a URL (lines 163-170).
Addressable(n) == n = 1 \/ site_config.pagination_param # <<>>

\* C10: a failed request adds no record and loses none, does not end the scan, and
\* is followed by the request for the next page number whenever that page is in
\* the range and has a URL; no page number is requested twice.
C10_FetchErrorSkipsPage ==
    /\ site_vinyl_records = RecordsOfPages(Len(page_log))
    /\ \A i, j \in DOMAIN page_log : i < j => page_log[i].page < page_log[j].page
    /\ \A i \in DOMAIN page_log :
        page_log[i].outcome = "error"
        => /\ page_log[i].records = <<>>
           /\ i < Len(page_log) => page_log[i + 1].page = page_log[i].page + 1
           /\ i = Len(page_log)
              => \/ pc = "loop" /\ page_num = page_log[i].page + 1
                 \/ /\ ScanOver
                    /\ \/ stopped = "range_end" /\ page_log[i].page = site_config.end_page
                       \/ stopped = "config" /\ ~Addressable(page_log[i].page + 1)

\* A request failed after records were collected, and the next page was requested.
C10_Witness ==
    \E i \in DOMAIN page_log :
        /\ page_log[i].outcome = "error"
        /\ i > 1 /\ page_log[i - 1].outcome = "products"
        /\ i < Len(page_log) /\ page_log[i + 1].outcome = "products"
        /\ Len(site_vinyl_records) >= 2

\* C11: a fetched page start_page without a product container does not stop the
\* scan: the next request is for page start_page + 1 whenever that page is in the
\* range and has a URL, and the records of the later pages are in the result.
C11_EmptyFirstPageContinues ==
    \A i \in DOMAIN page_log :
        (page_log[i].outcome = "empty" /\ page_log[i].page = site_config.start_page)
        => /\ stopped # "empty_page" \/ i < Len(page_log)
           /\ i < Len(page_log) => page_log[i + 1].page = site_config.start_page + 1
           /\ i = Len(page_log)
              => \/ pc = "loop" /\ page_num = site_config.start_page + 1
                 \/ /\ ScanOver
                    /\ \/ /\ stopped = "range_end"
                          /\ site_config.start_page = site_config.end_page
                       \/ /\ stopped = "config"
                          /\ ~Addressable(site_config.start_page + 1)
           /\ \A j \in DOMAIN page_log :
                 (j > i /\ pc = "returned")
                 => \A k \in DOMAIN page_log[j].records :
                       \E r \in DOMAIN site_vinyl_records :
                          site_vinyl_records[r] = page_log[j].records[k]
           /\ site_vinyl_records = RecordsOfPages(Len(page_log))

\* The first page of the range had no product, the next one had some, and the
\* function returned them.
C11_Witness ==
    /\ pc = "returned"
    /\ Len(page_log) >= 2
    /\ page_log[1].outcome = "empty" /\ page_log[1].page = site_config.start_page
    /\ page_log[2].outcome = "products"
    /\ page_log[2].page = site_config.start_page + 1
    /\ site_vinyl_records # <<>>

\* The URL stated for page n: base_url itself for page 1, otherwise
\* base_url?pagination_param=n.
StatedUrl(n) ==
    IF n = 1 THEN site_config.base_url
    ELSE site_config.base_url \o <<"?">> \o site_config.pagination_param
            \o <<"=">> \o StrOfInt(n)

\* The page numbers above 1 of the configured range.
LaterPages == {n \in site_config.start_page..site_config.end_page : n > 1}

\* The requests alone: each is for the stated URL of its page, and without a
\* pagination parameter only page 1 is requested.
RequestsAsStated ==
    /\ \A i \in DOMAIN page_log : page_log[i].url = StatedUrl(page_log[i].page)
    /\ site_config.pagination_param = <<>>
       => \A i \in DOMAIN page_log : page_log[i].page = 1

\* C12: every request is for the stated URL of its page number (base_url for
\* page 1, base_url?pagination_param=n otherwise); without a pagination
\* parameter only page 1 is ever requested, and a scan whose range has a page
\* number above 1 ends stopped by the configuration at the first such number.
C12_UrlPerPageAndConfigStop ==
    /\ RequestsAsStated
    /\ (/\ site_config.pagination_param = <<>>
        /\ LaterPages # {}
        /\ pc \in {"after_loop", "returned", "raised"})
       => /\ ScanOver /\ stopped = "config"
          /\ page_num \in LaterPages
          /\ \A n \in LaterPages : page_num <= n

\* The requests made so far: ascending page numbers of the range, each at most
\* once, at most end_page - start_page + 1 of them.
AttemptsInOrder ==
    /\ \A i, j \in DOMAIN page_log : i < j => page_log[i].page < page_log[j].page
    /\ \A i \in DOMAIN page_log :
          page_log[i].page \in site_config.start_page..site_config.end_page
    /\ Len(page_log) <= Cardinality(site_config.start_page..site_config.end_page)

\* C14: for a configuration the loader returned, whatever the pages give, the
\* scan ends by returning its records and never by an exception, after
\* requesting each page number of the range at most once, in ascending order.
C14_ScanReturns ==
    (site_config \in LoadedConfigs)
    => /\ <>(pc = "returned")
       /\ [](pc # "raised" /\ AttemptsInOrder)

\* The same for the configurations whose every page number has a URL: a
\* pagination parameter, or no page number below 1.
ReturnsWhenAddressable ==
    (site_config.pagination_param # <<>> \/ site_config.start_page >= 1)
    => /\ <>(pc = "returned")
       /\ [](pc # "raised" /\ AttemptsInOrder)

(***************************************************************************)
(* get_site_configs_from_sheet as a state machine: one step per data row   *)
(***************************************************************************)
MaxRows == 2          \* the largest number of data rows of a sheet

GoodRow ==
    [name |-> <<"s">>, baseurl |-> BaseUrl, paginationparam |-> <<"p", "g">>,
     startpage |-> <<"1">>, endpage |-> <<"2">>,
     productcontainer |-> <<"p", ",", " ", "q">>, titleelement |-> <<"t">>,
     priceelement |-> <<"c">>, linkelement |-> <<"l">>, artistelement |-> <<"r">>]

BlankRow == [h \in HeaderKeys |-> <<>>]

\* The data rows a sheet is made of: a well-formed row, a blank row, and the
\* well-formed row with one cell (or the two page cells) changed.
SheetRows ==
    {GoodRow, BlankRow}
    \cup {[GoodRow EXCEPT !.name = v] : v \in {<<>>, <<" ">>}}
    \cup {[GoodRow EXCEPT !.productcontainer = v] : v \in {<<>>, <<" ">>, <<",">>}}
    \cup {[GoodRow EXCEPT !.artistelement = <<>>, !.paginationparam = <<>>]}
    \cup {[GoodRow EXCEPT !.startpage = v] : v \in {<<>>, <<" ", "2", " ">>, <<"3">>}}
    \cup {[GoodRow EXCEPT !.endpage = v] : v \in {<<"x">>, <<"-", "1">>}}

\* What the spreadsheet gives: it cannot be opened or read ("unavailable"), it
\* has no values at all ("no_data"), its first row lacks an expected column
\* ("missing_headers"), or it has the ten columns and some data rows.
Sheets ==
    {[status |-> st, rows |-> <<>>] : st \in {"unavailable", "no_data", "missing_headers"}}
    \cup {[status |-> "ok", rows |-> rows] :
            rows \in UNION {[1..n -> SheetRows] : n \in 0..MaxRows}}

InitLoad ==
    /\ sheet \in Sheets
    /\ row_index = 0 /\ site_configs = <<>> /\ row_log = <<>> /\ load_pc = "start"
    /\ ScrapeIdle /\ ExtractIdle /\ RecommendIdle /\ CompareIdle

others_load == <<scrape_vars, extract_vars, recommend_vars, compare_vars>>

\* Lines 47-82: open the sheet, read it, check the headers; any failure returns [].
LoadOpen ==
    /\ load_pc = "start"
    /\ IF sheet.status = "ok"
       THEN load_pc' = "rows" /\ row_index' = 1
       ELSE load_pc' = "returned" /\ row_index' = row_index
    /\ UNCHANGED <<sheet, site_configs, row_log, others_load>>

\* Lines 84-120: one data row.
LoadRow ==
    /\ load_pc = "rows" /\ row_index <= Len(sheet.rows)
    /\ LET record == sheet.rows[row_index]
       IN  /\ row_log' = Append(row_log, RowOutcome(record))
           /\ site_configs' = IF RowOutcome(record) = "accepted"
                              THEN Append(site_configs, BuildConfig(record))
                              ELSE site_configs
    /\ row_index' = row_index + 1
    /\ UNCHANGED <<sheet, load_pc, others_load>>

\* Line 122: return site_configs.
LoadReturn ==
    /\ load_pc = "rows" /\ row_index > Len(sheet.rows)
    /\ load_pc' = "returned"
    /\ UNCHANGED <<sheet, row_index, site_configs, row_log, others_load>>

NextLoad == LoadOpen \/ LoadRow \/ LoadReturn

SpecLoad == InitLoad /\ [][NextLoad]_vars

\* The SiteProfile invariant: name, base_url and the four required selector cells
\* are non-empty after trimming, and start_page <= end_page.
SiteProfileInvariant(config) ==
    /\ Strip(config.name) # <<>> /\ Strip(config.base_url) # <<>>
    /\ \A key \in {"product_container", "title_element", "price_element", "link_element"} :
          Strip(config.selectors[key]) # <<>>
    /\ config.start_page <= config.end_page

\* C2: every configuration in the returned list satisfies the SiteProfile
\* invariant (a row that violates it is rejected).
C2_AcceptedProfilesAreValid ==
    \A i \in DOMAIN site_configs : SiteProfileInvariant(site_configs[i])

(***************************************************************************)
(* The extraction of one product (lines 197-250) on its own                *)
(***************************************************************************)
Sep == <<" ", "-", " ">>

\* Title elements: no text, and texts with no separator, one, two, a separator
\* that a no-break space is part of, and separators with a second space next to
\* them; the last one is two fragments that join without a separator.
TitleElements ==
    {El(strings, <<>>) :
        strings \in {<<>>,
                     <<<<"B">>>>,
                     <<<<"A", " ", "-", " ", "B">>>>,
                     <<<<"A", " ", "-", " ", " ", "B">>>>,
                     <<<<"B", " ", " ", "-", " ", "W">>>>,
                     <<<<"A", " ", "-", " ", "B", " ", "-", " ", "W">>>>,
                     <<<<"A", Nbsp, "-", " ", "B">>>>,
                     <<<<"A">>, <<"-", " ", "B">>>>}}

\* Artist elements: no text, "A", and "A" behind a no-break space.
ArtistElements == {El(strings, <<>>) : strings \in {<<>>, <<<<"A">>>>, <<<<Nbsp, "A">>>>}}

\* Price and link elements of a product: the price "12" under "c" and the link
\* "a" under "l" always; under "d" nothing or a second price "9"; under "k"
\* nothing, an element without href, or a second link "b".
PriceLinkElements ==
    LET fixed == (<<"c">> :> El(<<<<"1", "2">>>>, <<>>)
                  @@ <<"l">> :> El(<<>>, <<<<"a">>>>))
        second == (<<"d">> :> El(<<<<"9">>>>, <<>>))
        links == {El(<<>>, <<>>), El(<<>>, <<<<"b">>>>)}
    IN  {fixed, fixed @@ second}
        \cup {fixed @@ <<"k">> :> link : link \in links}
        \cup {fixed @@ second @@ <<"k">> :> link : link \in links}

\* Product nodes: price and link elements, and each choice of title and artist
\* element, either of which may be missing.
ExtractProducts ==
    UNION {{fixed}
           \cup {fixed @@ <<"t">> :> title : title \in TitleElements}
           \cup {fixed @@ <<"r">> :> artist : artist \in ArtistElements}
           \cup {fixed @@ <<"t">> :> title @@ <<"r">> :> artist :
                   title \in TitleElements, artist \in ArtistElements} :
           fixed \in PriceLinkElements}

ExtractSelectors ==
    {[product_container |-> <<<<"p">>>>, title_element |-> titles,
      price_element |-> prices, link_element |-> links,
      artist_element |-> artists] :
        titles \in {<<<<"t">>>>, <<<<"x">>, <<"t">>>>},
        prices \in {<<<<"c">>>>, <<<<"d">>, <<"c">>>>},
        links \in {<<<<"l">>>>, <<<<"k">>, <<"l">>>>},
        artists \in {<<>>, <<<<"r">>>>}}

InitExtract ==
    /\ ex_in \in [product : ExtractProducts, sel : ExtractSelectors]
    /\ ex_out = NoValue /\ ex_pc = "ready"
    /\ LoadIdle /\ ScrapeIdle /\ RecommendIdle /\ CompareIdle

\* One pass of the loop body of lines 197-250.
Extract ==
    /\ ex_pc = "ready"
    /\ ex_out' = ExtractRecord(ex_in.product, ex_in.sel, <<"s">>, BaseUrl)
    /\ ex_pc' = "done"
    /\ UNCHANGED <<ex_in, load_vars, scrape_vars, recommend_vars, compare_vars>>

NextExtract == Extract

SpecExtract == InitExtract /\ [][NextExtract]_vars

\* Whether a selector of the list selects an element of the product, and the
\* cleaned text of the first one that does.
Resolves(product, selectors) == \E i \in DOMAIN selectors : Selects(product, selectors[i])
ResolvedText(product, selectors) ==
    LET first == CHOOSE i \in DOMAIN selectors :
                     /\ Selects(product, selectors[i])
                     /\ \A j \in 1..(i - 1) : ~Selects(product, selectors[j])
    IN  CleanText(SelectOne(product, selectors[first]))

\* The text before and after the first occurrence of Sep in t.
BeforeFirstSep(t) ==
    LET k == CHOOSE i \in Occurrences(t, Sep) : \A j \in Occurrences(t, Sep) : i <= j
    IN  SubSeq(t, 1, k - 1)
AfterFirstSep(t) ==
    LET k == CHOOSE i \in Occurrences(t, Sep) : \A j \in Occurrences(t, Sep) : i <= j
    IN  SubSeq(t, k + 3, Len(t))

\* The (artist, album) pair the claim describes; with trimmed, the split parts
\* and the album left after the prefix is removed are stripped of whitespace.
StatedArtistAlbum(product, s, trimmed) ==
    LET trim(x) == IF trimmed THEN Strip(x) ELSE x
        a == IF Resolves(product, s.artist_element)
             THEN ResolvedText(product, s.artist_element) ELSE <<>>
        t == ResolvedText(product, s.title_element)
    IN  IF ~Resolves(product, s.title_element) THEN <<a, Unknown>>
        ELSE IF a # <<>> THEN
            IF StartsWith(t, a \o Sep)
            THEN <<a, trim(SubSeq(t, Len(a) + 4, Len(t)))>>
            ELSE <<a, t>>
        ELSE IF Occurrences(t, Sep) # {}
            THEN <<trim(BeforeFirstSep(t)), trim(AfterFirstSep(t))>>
            ELSE <<<<>>, t>>

\* C7 as stated: artist and album are the artist text and the title text without
\* its "A - " prefix, or the two sides of the first " - " of the title text, or
\* "" and the whole title text; the album is the sentinel without a title element.
C7_ArtistAlbumAsStated ==
    ex_pc = "done"
    => <<ex_out.artist, ex_out.album>> = StatedArtistAlbum(ex_in.product, ex_in.sel, FALSE)

\* C7 as amended: the same, with the album that is left after the prefix is
\* removed, and each side of the split, stripped of surrounding whitespace.
C7_ArtistAlbumTrimmed ==
    ex_pc = "done"
    => <<ex_out.artist, ex_out.album>> = StatedArtistAlbum(ex_in.product, ex_in.sel, TRUE)

\* The artist selector gave "A", the title text is "A - B - W": album "B - W".
C7_Witness ==
    /\ ex_pc = "done"
    /\ Resolves(ex_in.product, ex_in.sel.artist_element)
    /\ Resolves(ex_in.product, ex_in.sel.title_element)
    /\ ResolvedText(ex_in.product, ex_in.sel.title_element)
         = <<"A", " ", "-", " ", "B", " ", "-", " ", "W">>
    /\ ex_out.artist = <<"A">>
    /\ ex_out.album = <<"B", " ", "-", " ", "W">>

\* The element the first selector of the list that selects one selects.
ResolvedElement(product, selectors) ==
    LET first == CHOOSE i \in DOMAIN selectors :
                     /\ Selects(product, selectors[i])
                     /\ \A j \in 1..(i - 1) : ~Selects(product, selectors[j])
    IN  SelectOne(product, selectors[first])

\* The link of the first link selector that selects an element: its href joined
\* to base_url, or "" when that element has no href or nothing is selected.
StatedLink(product, selectors, base_url) ==
    IF ~Resolves(product, selectors) THEN <<>>
    ELSE IF ResolvedElement(product, selectors).href = <<>> THEN <<>>
    ELSE UrlJoin(base_url, ResolvedElement(product, selectors).href[1])

\* The products of the first container selector that matches on the page.
StatedProducts(soup, selectors) ==
    LET matching == {i \in DOMAIN selectors : Select(soup, selectors[i]) # <<>>}
    IN  IF matching = {} THEN <<>>
        ELSE Select(soup, selectors[CHOOSE i \in matching : \A j \in matching : i <= j])

\* C13: every family is resolved by its first selector that matches and by that
\* one alone: the products are those of the first matching container selector;
\* artist and album come from the first matching artist and title elements; the
\* price is the text of the first matching price element; and the link is that
\* of the first matching link element, "" when that element has no href.
C13_FirstMatchingSelectorOnly ==
    /\ \A soup \in Soups :
          \A selectors \in {<<<<"p">>>>, <<<<"q">>, <<"p">>>>, <<<<"x">>, <<"q">>>>} :
             FindProducts(soup, selectors) = StatedProducts(soup, selectors)
    /\ ex_pc = "done"
       => /\ <<ex_out.artist, ex_out.album>>
                = StatedArtistAlbum(ex_in.product, ex_in.sel, TRUE)
          /\ ex_out.price = IF Resolves(ex_in.product, ex_in.sel.price_element)
                            THEN GetTextStrip(ResolvedElement(ex_in.product,
                                                              ex_in.sel.price_element))
                            ELSE Unknown
          /\ ex_out.link = StatedLink(ex_in.product, ex_in.sel.link_element, BaseUrl)

\* The same without the link: products, artist, album and price by the first
\* matching selector alone.
FirstMatchBesidesLink ==
    /\ \A soup \in Soups :
          \A selectors \in {<<<<"p">>>>, <<<<"q">>, <<"p">>>>, <<<<"x">>, <<"q">>>>} :
             FindProducts(soup, selectors) = StatedProducts(soup, selectors)
    /\ ex_pc = "done"
       => /\ <<ex_out.artist, ex_out.album>>
                = StatedArtistAlbum(ex_in.product, ex_in.sel, TRUE)
          /\ ex_out.price = IF Resolves(ex_in.product, ex_in.sel.price_element)
                            THEN GetTextStrip(ResolvedElement(ex_in.product,
                                                              ex_in.sel.price_element))
                            ELSE Unknown

(***************************************************************************)
(* recommend_vinyls                                                        *)
(*                                                                         *)
(* A DataFrame is the sequence of its rows. A row of discount_df is a      *)
(* record as scrape_single_site builds it; a row of top_df has the columns *)
(* artist ('Гурт/Співак') and album ('Назва Альбому').                     *)
(***************************************************************************)
\* Series.astype(str).str.lower().str.strip()  (lines 264-267, 454-458)
NormKey(text) == Strip(Lower(text))

\* The two _norm columns of a frame (lines 264-267).
NormColumns(df) ==
    [i \in 1..Len(df) |-> [artist |-> NormKey(df[i].artist), album |-> NormKey(df[i].album)]]

\* pd.merge(discount_df, top_df, on the two _norm columns, how='inner'), reduced
\* to the discount columns (lines 269-281): the left rows in order, each once
\* per right row with the same key pair.
MergeInner(left, right) ==
    LET matches(i) == SelectSeq(right, LAMBDA t :
                          /\ NormKey(t.artist) = NormKey(left[i].artist)
                          /\ NormKey(t.album) = NormKey(left[i].album))
        RECURSIVE rows(_)
        rows(i) == IF i > Len(left) THEN <<>>
                   ELSE [k \in 1..Len(matches(i)) |-> left[i]] \o rows(i + 1)
    IN  rows(1)

\* The columns drop_duplicates and the claims identify a row by.
RowTuple(row) == <<row.store, row.artist, row.album, row.link>>

\* drop_duplicates left out: the rows as they are.
KeepDuplicates(rows) == rows

\* drop_duplicates(subset=[store, artist, album, link]): the first row of each
\* tuple is kept (lines 282, 493).
DropDuplicates(rows) ==
    LET first(i) == \A j \in 1..(i - 1) : RowTuple(rows[j]) # RowTuple(rows[i])
        RECURSIVE keep(_)
        keep(i) == IF i > Len(rows) THEN <<>>
                   ELSE (IF first(i) THEN <<rows[i]>> ELSE <<>>) \o keep(i + 1)
    IN  keep(1)

\* (artist, album) of a before that of b, as Python compares the two strings.
ArtistAlbumLess(a, b) ==
    \/ StrLess(a.artist, b.artist)
    \/ a.artist = b.artist /\ StrLess(a.album, b.album)

\* sort_values(by=[artist, album]).reset_index(drop=True): a stable sort (line 283).
SortByArtistAlbum(rows) ==
    LET RECURSIVE insert(_, _)
        insert(sorted, row) ==
            IF sorted = <<>> THEN <<row>>
            ELSE IF ArtistAlbumLess(row, sorted[Len(sorted)])
                 THEN Append(insert(SubSeq(sorted, 1, Len(sorted) - 1), row),
                             sorted[Len(sorted)])
                 ELSE Append(sorted, row)
        RECURSIVE sort(_)
        sort(k) == IF k = 0 THEN <<>> ELSE insert(sort(k - 1), rows[k])
    IN  sort(Len(rows))

\* recommend_vinyls (lines 257-284).
RecommendVinyls(discount, top) ==
    IF discount = <<>> \/ top = <<>> THEN <<>>
    ELSE SortByArtistAlbum(DropDuplicates(MergeInner(discount, top)))

MaxListings == 3      \* the largest number of rows of discount_df
MaxTop == 2           \* the largest number of rows of top_df

Row(artist, album, price, link) ==
    [store |-> <<"s">>, artist |-> artist, album |-> album, price |-> price, link |-> link]

\* Scraped records: the same product twice at two prices, the same album under
\* the artist's name in small letters, another artist, and a record without
\* artist and album.
DiscountRows ==
    {Row(<<"A">>, <<"w", " ", "w">>, <<"1">>, <<"k">>),
     Row(<<"A">>, <<"w", " ", "w">>, <<"2">>, <<"k">>),
     Row(<<"B">>, <<"W">>, <<"1">>, <<"k">>),
     Row(<<"a">>, <<"w", " ", "w">>, <<"1">>, <<>>),
     Row(<<>>, Unknown, <<"1">>, <<"k">>)}

\* Reference albums, as the CSV file has them: other case, padding, a no-break
\* space or two spaces inside the title.
TopRows ==
    {[artist |-> <<"a">>, album |-> <<"w", " ", "w">>],
     [artist |-> <<"b">>, album |-> <<"w">>],
     [artist |-> <<" ", "A">>, album |-> <<"W", " ", "w", " ">>],
     [artist |-> <<"A">>, album |-> <<"W", Nbsp, "w">>],
     [artist |-> <<"a">>, album |-> <<"w", " ", " ", "w">>]}

InitRecommend ==
    /\ discount_df \in UNION {[1..n -> DiscountRows] : n \in 0..MaxListings}
    /\ top_df \in UNION {[1..n -> TopRows] : n \in 0..MaxTop}
    /\ discount_norm = <<>> /\ top_norm = <<>> /\ recommended_df = <<>> /\ rec_pc = "ready"
    /\ LoadIdle /\ ScrapeIdle /\ ExtractIdle /\ CompareIdle

\* The call recommend_vinyls(discount_df, top_df): the _norm columns are added
\* to both frames unless one of them is empty.
Recommend ==
    /\ rec_pc = "ready"
    /\ IF discount_df = <<>> \/ top_df = <<>>
       THEN discount_norm' = discount_norm /\ top_norm' = top_norm
       ELSE discount_norm' = NormColumns(discount_df) /\ top_norm' = NormColumns(top_df)
    /\ recommended_df' = RecommendVinyls(discount_df, top_df)
    /\ rec_pc' = "done"
    /\ UNCHANGED <<discount_df, top_df, load_vars, scrape_vars, extract_vars, compare_vars>>

NextRecommend == Recommend

SpecRecommend == InitRecommend /\ [][NextRecommend]_vars

\* normalize of the specification: lower-cased, no-break spaces replaced by
\* spaces, leading and trailing whitespace removed.
Normalize(text) == Strip(ReplaceChar(Lower(text), Nbsp, <<" ">>))

RowsOf(df) == {df[i] : i \in DOMAIN df}

\* C4: the returned rows are the inner join on (normalize(artist),
\* normalize(album)): a (store, artist, album, link) tuple is returned exactly
\* when a listing has it and some reference album has the listing's normalized
\* artist and album; the text is the listing's; an empty input gives no rows.
C4_RecommendIsJoinOnNormalized ==
    rec_pc = "done"
    => /\ {RowTuple(r) : r \in RowsOf(recommended_df)}
            = {RowTuple(l) : l \in {x \in RowsOf(discount_df) :
                    \E t \in RowsOf(top_df) :
                        /\ Normalize(t.artist) = Normalize(x.artist)
                        /\ Normalize(t.album) = Normalize(x.album)}}
       /\ (discount_df = <<>> \/ top_df = <<>>) => recommended_df = <<>>

\* The same join on the key the code computes (lower-cased and stripped only).
RecommendIsJoinOnNormKey ==
    rec_pc = "done"
    => /\ {RowTuple(r) : r \in RowsOf(recommended_df)}
            = {RowTuple(l) : l \in {x \in RowsOf(discount_df) :
                    \E t \in RowsOf(top_df) :
                        /\ Lower(Strip(t.artist)) = Lower(Strip(x.artist))
                        /\ Lower(Strip(t.album)) = Lower(Strip(x.album))}}
       /\ RowsOf(recommended_df) \subseteq RowsOf(discount_df)
       /\ (discount_df = <<>> \/ top_df = <<>>) => recommended_df = <<>>

\* C5: no two returned rows have the same (store, artist, album, link), and the
\* rows ascend by (artist, album) in the listings' own text.
C5_RecommendUniqueAndSorted ==
    rec_pc = "done"
    => \A i, j \in DOMAIN recommended_df :
          i < j => /\ RowTuple(recommended_df[i]) # RowTuple(recommended_df[j])
                   /\ ~ArtistAlbumLess(recommended_df[j], recommended_df[i])

\* A listing repeated in discount_df and a reference album met twice in top_df,
\* with two rows returned in another order than the listings came in.
C5_Witness ==
    /\ rec_pc = "done"
    /\ Len(recommended_df) = 2
    /\ \E i, j \in DOMAIN discount_df :
          /\ i < j /\ RowTuple(discount_df[i]) = RowTuple(discount_df[j])
    /\ \E i, j \in DOMAIN top_df : i < j /\ top_norm[i] = top_norm[j]
    /\ \E i, j \in DOMAIN discount_df :
          /\ i < j
          /\ discount_df[i] = recommended_df[2] /\ discount_df[j] = recommended_df[1]

\* Two texts that differ only in no-break spaces against spaces.
SameButNbsp(s, t) ==
    /\ Len(s) = Len(t)
    /\ \A k \in 1..Len(s) : s[k] = t[k] \/ {s[k], t[k]} = {" ", Nbsp}

\* The texts a key was computed for, each with its key.
KeyedTexts ==
    UNION {{<<discount_df[i].artist, discount_norm[i].artist>>,
            <<discount_df[i].album, discount_norm[i].album>>} : i \in DOMAIN discount_norm}
    \cup UNION {{<<top_df[i].artist, top_norm[i].artist>>,
                 <<top_df[i].album, top_norm[i].album>>} : i \in DOMAIN top_norm}

\* C9: every comparison key is normalize of its text (lower-cased, stripped,
\* no-break spaces replaced by spaces); keys are fixed points of the key
\* function; texts that differ only in a no-break space against a space have
\* equal keys, and a doubled inner space is kept.
C9_KeyIsNormalize ==
    /\ \A p \in KeyedTexts : p[2] = Normalize(p[1])
    /\ \A p \in KeyedTexts : NormKey(p[2]) = p[2]
    /\ \A p, q \in KeyedTexts : SameButNbsp(p[1], q[1]) => p[2] = q[2]
    /\ \A p, q \in KeyedTexts :
          (p[1] = <<"w", " ", "w">> /\ q[1] = <<"w", " ", " ", "w">>) => p[2] # q[2]

(***************************************************************************)
(* The "compare prices" handler (lines 426-512)                            *)
(***************************************************************************)
Hryvnia == "uah"      \* the currency sign U+20B4

\* Lines 460-470 with the album compared for equality only.
MatchConditionExactAlbum(listing, target_artist_norm, target_album_norm) ==
    /\ target_artist_norm # <<>> => Contains(NormKey(listing.artist), target_artist_norm)
    /\ NormKey(listing.album) = target_album_norm

\* Lines 460-470: the mask value of one row of temp_deals_df.
MatchCondition(listing, target_artist_norm, target_album_norm) ==
    LET cond_artist_matches ==
            IF target_artist_norm # <<>>
            THEN Contains(NormKey(listing.artist), target_artist_norm)
            ELSE TRUE
        cond_album_matches == Contains(NormKey(listing.album), target_album_norm)
        final_match_condition == cond_artist_matches /\ cond_album_matches
    IN  IF target_artist_norm = <<>>
        THEN final_match_condition \/ NormKey(listing.album) = target_album_norm
        ELSE final_match_condition

\* Lines 453-472: found_album_in_shop for one album and one shop's frame.
FoundAlbumInShop(album_row, temp_deals_df) ==
    IF temp_deals_df = <<>> THEN <<>>
    ELSE SelectSeq(temp_deals_df, LAMBDA listing :
            MatchCondition(listing, NormKey(album_row.artist), NormKey(album_row.album)))

\* Line 495 without the replacement of the comma.
CleanPriceKeepsComma(text) == ReplaceChar(ReplaceChar(text, Hryvnia, <<>>), " ", <<>>)

\* Line 495: .str.replace('₴', '').str.replace(',', '.').str.replace(' ', '')
CleanPrice(text) ==
    ReplaceChar(ReplaceChar(ReplaceChar(text, Hryvnia, <<>>), ",", <<".">>), " ", <<>>)

DigitValue(c) ==
    CASE c = "0" -> 0 [] c = "1" -> 1 [] c = "2" -> 2 [] c = "3" -> 3 [] c = "4" -> 4
      [] c = "5" -> 5 [] c = "6" -> 6 [] c = "7" -> 7 [] c = "8" -> 8 [] c = "9" -> 9
      [] OTHER -> -1

\* 10^k, to compare decimal values by cross-multiplication.
Pow10(k) == LET RECURSIVE pow(_)
                pow(i) == IF i = 0 THEN 1 ELSE 10 * pow(i - 1)
            IN  pow(k)

\* pd.to_numeric(text, errors='coerce') for a text of digits, points and other
\* characters: a number when the text is digits with at most one point and at
\* least one digit, NaN (ok = FALSE) otherwise. The number is num / 10^scale.
ToNumeric(text) ==
    LET points == {i \in 1..Len(text) : text[i] = "."}
        digits == SelectSeq(text, LAMBDA c : c # ".")
        RECURSIVE value(_)
        value(k) == IF k = 0 THEN 0 ELSE 10 * value(k - 1) + DigitValue(digits[k])
        ok == /\ Cardinality(points) <= 1
              /\ digits # <<>>
              /\ \A k \in 1..Len(digits) : DigitValue(digits[k]) >= 0
    IN  IF ~ok THEN [ok |-> FALSE, num |-> 0, scale |-> 0]
        ELSE [ok |-> TRUE, num |-> value(Len(digits)),
              scale |-> IF points = {} THEN 0
                        ELSE Len(text) - (CHOOSE i \in points : TRUE)]

\* Lines 494-497: the Parsed_Price of a row.
ParsedPrice(row) == ToNumeric(CleanPrice(row.price))

\* Lines 493-498: drop_duplicates, Parsed_Price, dropna.
FinalComparison(results) ==
    LET unique == DropDuplicates(results)
        priced == [i \in 1..Len(unique) |->
                      [store |-> unique[i].store, artist |-> unique[i].artist,
                       album |-> unique[i].album, price |-> unique[i].price,
                       link |-> unique[i].link, parsed_price |-> ParsedPrice(unique[i])]]
    IN  SelectSeq(priced, LAMBDA row : row.parsed_price.ok)

\* Line 507: the columns selected for display leave Parsed_Price out, and
\* sort_values(by='Parsed_Price') on that selection raises KeyError; it is
\* reached for the first group whenever the final frame has a row.
DisplayRaises(final) == final # <<>>

\* Lines 431-490: the rows collected, first the selected albums, then for each
\* album and each shop the rows found there.
CollectResults(albums, found) ==
    LET RECURSIVE shops(_, _)
        shops(a, j) == IF j > Len(found[a]) THEN <<>> ELSE found[a][j] \o shops(a, j + 1)
        RECURSIVE each(_)
        each(a) == IF a > Len(albums) THEN <<>> ELSE shops(a, 1) \o each(a + 1)
    IN  albums \o each(1)

MaxAlbums == 2        \* the largest number of selected albums
MaxShops == 2         \* the largest number of shops compared

\* A product node with an optional artist element, a title element and an
\* optional price element (each option is <<>> or <<element>>).
Node(artist, title, price) ==
    LET with(node, selector, option) ==
            IF option = <<>> THEN node ELSE node @@ selector :> option[1]
    IN  with(with(<<"t">> :> title @@ <<"l">> :> El(<<>>, <<<<"/", "a">>>>),
                  <<"r">>, artist),
             <<"c">>, price)

\* The pages of the compared shops. Artists "B A" (written with a no-break
\* space), "", "B" (from the title) and "A"; albums "A W", "W", "W", "W" and "B";
\* prices "1,5", none, "1" + no-break space + "2", "1 234,50 ₴" and "2".
ShopPages ==
    {<<>>,
     <<Node(<<El(<<<<"B", Nbsp, "A">>>>, <<>>)>>, El(<<<<"A", " ", "W">>>>, <<>>),
            <<El(<<<<"1", ",", "5">>>>, <<>>)>>),
       Node(<<>>, El(<<<<"W">>>>, <<>>), <<>>)>>,
     <<Node(<<>>, El(<<<<"B", " ", "-", " ", "W">>>>, <<>>),
            <<El(<<<<"1", Nbsp, "2">>>>, <<>>)>>),
       Node(<<El(<<<<"A">>>>, <<>>)>>, El(<<<<"A", " ", "-", " ", "W">>>>, <<>>),
            <<El(<<<<"1", " ", "2", "3", "4", ",", "5", "0", " ", Hryvnia>>>>, <<>>)>>)>>,
     <<Node(<<El(<<<<"A">>>>, <<>>)>>, El(<<<<"B">>>>, <<>>), <<El(<<<<"2">>>>, <<>>)>>)>>,
     <<Node(<<>>, El(<<<<"W">>>>, <<>>), <<>>)>>}

ShopNames == <<"t", "u", "v", "x">>

CompareSelectors ==
    [product_container |-> <<<<"p">>>>, title_element |-> <<<<"t">>>>,
     price_element |-> <<<<"c">>>>, link_element |-> <<<<"l">>>>,
     artist_element |-> <<<<"r">>>>]

\* What scrape_single_site returns for the j-th compared shop whose page has
\* these products.
ShopFrame(j, products) == ExtractAll(products, CompareSelectors, <<ShopNames[j]>>, BaseUrl)

\* Rows of last_recommendations: a price with thousands space, decimal comma and
\* currency sign; a row without artist; a row without a price.
RecommendedRows ==
    {Row(<<"A">>, <<"W">>, <<"1", " ", "2", "3", "4", ",", "5", "0", " ", Hryvnia>>, <<"k">>),
     Row(<<>>, <<"w">>, <<"1", "2">>, <<"k">>),
     Row(<<"B">>, <<"W">>, Unknown, <<"k">>)}

InitCompare ==
    /\ albums_to_search \in
          {rows \in UNION {[1..n -> RecommendedRows] : n \in 0..MaxAlbums} :
              \A i, j \in DOMAIN rows : i # j => rows[i] # rows[j]}
    /\ \E pages \in UNION {[1..n -> ShopPages] : n \in 0..MaxShops} :
          shop_deals = [j \in DOMAIN pages |-> ShopFrame(j, pages[j])]
    /\ all_comparison_results = <<>> /\ found_album_in_shop = <<>> /\ found_flags = <<>>
    /\ final_comparison_df = <<>> /\ cmp_pc = "ready"
    /\ LoadIdle /\ ScrapeIdle /\ ExtractIdle /\ RecommendIdle

\* The button handler of lines 426-512.
ComparePrices ==
    /\ cmp_pc = "ready"
    /\ IF albums_to_search = <<>> \/ shop_deals = <<>>
       THEN /\ cmp_pc' = "done"
            /\ UNCHANGED <<all_comparison_results, found_album_in_shop, found_flags,
                           final_comparison_df>>
       ELSE LET found == [a \in DOMAIN albums_to_search |->
                            [j \in DOMAIN shop_deals |->
                                FoundAlbumInShop(albums_to_search[a], shop_deals[j])]]
                results == CollectResults(albums_to_search, found)
            IN  /\ found_album_in_shop' = found
                /\ found_flags' = [a \in DOMAIN albums_to_search |->
                                      \E j \in DOMAIN shop_deals : found[a][j] # <<>>]
                /\ all_comparison_results' = results
                /\ final_comparison_df' = FinalComparison(results)
                /\ cmp_pc' = IF DisplayRaises(FinalComparison(results))
                             THEN "KeyError" ELSE "done"
    /\ UNCHANGED <<albums_to_search, shop_deals, load_vars, scrape_vars, extract_vars,
                   recommend_vars>>

NextCompare == ComparePrices

SpecCompare == InitCompare /\ [][NextCompare]_vars

\* The handler has run, to its end or to the exception of line 507.
CompareOver == cmp_pc \in {"done", "KeyError"}

\* The matching rule of the specification, on normalize.
StatedMatch(listing, target) ==
    /\ Contains(Normalize(listing.album), Normalize(target.album))
    /\ \/ Normalize(target.artist) = <<>>
       \/ Contains(Normalize(listing.artist), Normalize(target.artist))

\* C6: for every selected album and every listing of a compared shop, the listing
\* is selected exactly when its normalized album contains the normalized target
\* album and the normalized target artist is empty or contained in its normalized
\* artist; the equality clause for an empty target artist changes nothing.
C6_SelectedIffStatedMatch ==
    CompareOver
    => \A a \in DOMAIN found_album_in_shop : \A j \in DOMAIN found_album_in_shop[a] :
          found_album_in_shop[a][j]
            = SelectSeq(shop_deals[j], LAMBDA l : StatedMatch(l, albums_to_search[a]))

\* The target without artist and with album "w" selects the listing "A W" of a
\* shop whose other listing of that page is selected too, and the target "A"/"W"
\* selects one listing of a page and not the other.
C6_Witness ==
    /\ CompareOver
    /\ \E a \in DOMAIN found_album_in_shop : \E j \in DOMAIN found_album_in_shop[a] :
          /\ albums_to_search[a].artist = <<>>
          /\ \E i \in DOMAIN found_album_in_shop[a][j] :
                found_album_in_shop[a][j][i].album = <<"A", " ", "W">>
    /\ \E a \in DOMAIN found_album_in_shop : \E j \in DOMAIN found_album_in_shop[a] :
          /\ albums_to_search[a].artist = <<"A">>
          /\ Len(found_album_in_shop[a][j]) = 1 /\ Len(shop_deals[j]) = 2

\* The number a price text stands for: digits, thousands spaces and currency
\* sign dropped, the comma read as the decimal point. ok = FALSE when what is
\* left is not a decimal numeral.
StatedPrice(text) ==
    LET kept == SelectSeq(text, LAMBDA c : c \notin {" ", Hryvnia})
        marks == {i \in 1..Len(kept) : kept[i] \in {",", "."}}
        isDigit(c) == c \in {"0", "1", "2", "3", "4", "5", "6", "7", "8", "9"}
        RECURSIVE whole(_)
        whole(k) == IF k = 0 THEN 0
                    ELSE IF k \in marks THEN whole(k - 1)
                    ELSE 10 * whole(k - 1) + DigitValue(kept[k])
        numeral == /\ Cardinality(marks) <= 1
                   /\ \E k \in 1..Len(kept) : isDigit(kept[k])
                   /\ \A k \in 1..Len(kept) : k \in marks \/ isDigit(kept[k])
    IN  IF ~numeral THEN [ok |-> FALSE, num |-> 0, den |-> 1]
        ELSE [ok |-> TRUE, num |-> whole(Len(kept)),
              den |-> Pow10(Cardinality({k \in 1..Len(kept) : \E m \in marks : k > m}))]

\* The rows of the final frame, the only rows a price-sorted table is made
\* of, without their Parsed_Price.
PricedRows ==
    {[store |-> row.store, artist |-> row.artist, album |-> row.album,
      price |-> row.price, link |-> row.link] : row \in RowsOf(final_comparison_df)}

\* C8: the Parsed_Price of a row of the final frame is the number its price
\* text stands for ("1 234,50 ₴" is 1234.50); the rows of the final frame are
\* the collected rows whose price text stands for a number; and an album counts
\* as found as soon as a compared shop has a matching listing, whatever that
\* listing's price text.
C8_PriceParsedAndUnpricedCounted ==
    CompareOver
    => /\ \A row \in RowsOf(final_comparison_df) :
             /\ StatedPrice(row.price).ok
             /\ row.parsed_price.num * StatedPrice(row.price).den
                  = StatedPrice(row.price).num * Pow10(row.parsed_price.scale)
             /\ row.price = <<"1", " ", "2", "3", "4", ",", "5", "0", " ", Hryvnia>>
                  => row.parsed_price.num * 100 = 123450 * Pow10(row.parsed_price.scale)
       /\ PricedRows = {row \in RowsOf(DropDuplicates(all_comparison_results)) :
                          StatedPrice(row.price).ok}
       /\ \A a \in DOMAIN found_flags :
             found_flags[a] = \E j \in DOMAIN shop_deals : \E l \in RowsOf(shop_deals[j]) :
                                 StatedMatch(l, albums_to_search[a])

\* A row priced "1 234,50 ₴" is in the final frame, and an album's only match
\* in the compared shops has the price text "Невідомо": the album counts as
\* found and that row is not in the final frame.
C8_Witness ==
    /\ CompareOver
    /\ \E row \in PricedRows :
          row.price = <<"1", " ", "2", "3", "4", ",", "5", "0", " ", Hryvnia>>
    /\ \E a \in DOMAIN found_flags :
          /\ found_flags[a]
          /\ \A j \in DOMAIN shop_deals : \A l \in RowsOf(found_album_in_shop[a][j]) :
                l.price = Unknown /\ l \notin PricedRows

====
